---- MODULE Spec2Model ----
(***************************************************************************)
(* tracing-statusbar: the unthreaded engine (src/src/unthreaded.rs), the   *)
(* raw-mode guard (src/src/utils.rs), the log bridge                       *)
(* (src/src/log_bridge.rs) and the threaded engine (src/src/threaded.rs).  *)
(*                                                                         *)
(* Spec          the unthreaded engine: caller threads sharing one         *)
(*               Arc<Mutex<WriteState>>.                                   *)
(* SpecThreaded  the threaded engine: producers, the bridge, the           *)
(*               background thread and the handler's drop.                 *)
(***************************************************************************)
EXTENDS Integers, Sequences, FiniteSets, TLC

\* ------------------------------------------------------------------ bounds
\* Largest line count the render callback returns.
MaxLines == 2
\* Largest length of a buffer handed to LogWriter::write.
MaxBuf == 1
\* Number of LogWriter::write calls explored.
MaxWrites == 3

\* Slots of each of the two sync_channels of log_bridge::init (1024 in the
\* source), scaled down so that a full channel is reachable.
Capacity == 2
\* Number of LogSender::write calls explored.
MaxSends == 3
\* Largest line count the render callback of the threaded engine returns.
MaxStatus == 1
\* Longest payload passed to LogSender::write in the byte-level bridge.
MaxPayload == 2
\* Number of LogSender::write calls explored in the byte-level bridge.
MaxBridgeWrites == 2
\* Most LogSender values alive at once in the byte-level bridge.
MaxSenders == 2
\* Number of builder method calls before finish.
MaxCalls == 4
\* Number of LogSender::write calls explored in the buffer accounting.
MaxPoolWrites == 7

\* Caller threads holding cloned LogWriter handles.
UThreads == {1, 2}

\* Producer threads holding cloned LogSender handles.
Producers == {1, 2}

\* A mutex no thread holds.
Unlocked == 0

\* What travels on the payload channel, Option<Vec<u8>>: Some(buffer), the
\* buffer's content named by the number of the write call it came from and
\* tagged with the producer that sent it, or None, the close sentinel.
Some(id, p) == [id |-> id, p |-> p]
None == [id |-> 0, p |-> 0]

\* In the history enq: the sentinel of a clone's close() and the sentinel of
\* Drop for ThreadedHandler.
CloneNone == 0
DropNone == -1

\* The render callback of the threaded engine has not run yet.
NoStatus == -1

\* ------------------------------------------------- unthreaded engine state
VARIABLES
    state_lines,      \* WriteState.lines
    assume_raw_mode,  \* WriteState.assume_raw_mode
    state_mutex,      \* holder of the Mutex<WriteState>, Unlocked when free
    poisoned,         \* the mutex was poisoned by a panic of its holder
    upc,              \* each caller thread's position in write / flush
    buf_len,          \* len(buf) of each thread's current write call
    bytes_written,    \* the local bytes_written of each thread's write
    retval,           \* the n of the Ok(n) each thread's last successful write returned
    raw_mode_guard,   \* each thread's local raw_mode_guard is Some
    uresult,          \* how each thread's last call ended
    raw_mode,         \* the terminal is in raw mode
    \* history
    ops,              \* operations issued since the last lock acquisition
    disables,         \* calls of terminal::disable_raw_mode so far
    enables,          \* calls of terminal::enable_raw_mode so far
    nwrites,          \* write calls that acquired the lock so far
    start_lines,      \* state.lines when the current write acquired the lock
    last_ret,         \* what the callback returned last, 0 before it ran
    drawn             \* extra status lines on the terminal: drawn, not erased

uvars == <<state_lines, state_mutex, poisoned, upc, buf_len, bytes_written, retval,
           raw_mode_guard, uresult, ops, disables, enables, nwrites,
           start_lines, last_ret, drawn>>

\* --------------------------------------------------- threaded engine state
VARIABLES
    chan,            \* the payload channel: payloads (Some) and None sentinels
    pool,            \* the free-list channel: returned buffers, by last content
    rx_alive,        \* the LogReceiver (receiver and pool sender) is not dropped
    pool_mutex,      \* holder of the Mutex around the pool receiver
    ppc,             \* each producer's position in write / close
    pbuf,            \* the payload a producer is writing (its buffer's content)
    nsent,           \* LogSender::write calls so far; numbers the payloads
    clone_closed,    \* close() was called on a cloned LogSender
    cpc,             \* the background thread's position in handle_logs
    lines,           \* handle_logs' local lines
    last_status,     \* what the render callback returned last, NoStatus before
    entry,           \* the LogEntry bound by `while let Some(entry)`, or None
    drain_entry,     \* the LogEntry bound in the drain loop's Ok arm
    guard,           \* handle_logs' local raw_mode_guard is Some
    panicking,       \* the background thread is unwinding from a panic
    hpc,             \* the owner's position in Drop for ThreadedHandler
    \* history
    sink,            \* payloads written to the wrapped sink, in order
    stdout,          \* payloads printed by the fallback
    enq,             \* what was enqueued on the payload channel, in order:
                     \* payloads, CloneNone and DropNone for the sentinels
    cops,            \* operations of the background thread's current iteration
    burst,           \* payloads queued when the blocking recv returned
    after_close      \* payloads whose write began after a close() returned

tvars == <<chan, pool, rx_alive, pool_mutex, ppc, pbuf, nsent, clone_closed, cpc,
           lines, last_status, entry, drain_entry, guard, panicking, hpc, sink, stdout,
           enq, cops, burst, after_close>>

\* ------------------------------------------ the log bridge with its bytes
VARIABLES
    b_chan,          \* the payload channel: Some(buffer) items and None sentinels
    b_pool,          \* the free-list channel: returned buffers with their bytes
    b_senders,       \* how many LogSender values (clones) are alive
    b_nwrites,       \* LogSender::write calls so far
    b_cpc,           \* the receiving side's position
    b_entry,         \* the LogEntry the receiving side holds
    b_outcome,       \* what the last recv / try_recv returned
    b_appended       \* the bytes output.write appended for the held entry

bvars == <<b_chan, b_pool, b_senders, b_nwrites, b_cpc, b_entry, b_outcome,
           b_appended>>

\* ------------------------------------------------------------ the builder
VARIABLES
    builder_state,            \* the typestate T of Builder<T, W>
    builder_callback,         \* the callback the builder holds, 0 if none
    builder_assume_raw_mode,  \* Builder.assume_raw_mode
    builder_calls,            \* the builder methods called so far, in order
    handler                   \* what finish() built

gvars == <<builder_state, builder_callback, builder_assume_raw_mode,
           builder_calls, handler>>

\* ------------------------------------------------- the buffers of the bridge
VARIABLES
    k_chan,          \* the payload channel: the buffers queued in it
    k_pool,          \* the free-list channel: the buffers queued in it
    k_mutex,         \* holder of the Mutex around the free list's receiver
    k_ppc,           \* each producer's position in LogSender::write
    k_held,          \* the buffer a producer holds, 0 if none
    k_cpc,           \* the background thread's position
    k_entry,         \* the buffer of the entry of `while let`, 0 if none
    k_drain,         \* the buffer of the drained entry, 0 if none
    k_allocated,     \* how many buffers were allocated; buffers are 1..k_allocated
    k_nwrites        \* LogSender::write calls so far

kvars == <<k_chan, k_pool, k_mutex, k_ppc, k_held, k_cpc, k_entry, k_drain,
           k_allocated, k_nwrites>>

vars == <<assume_raw_mode, raw_mode, uvars, tvars, bvars, gvars, kvars>>

Op(t, name) == [t |-> t, op |-> name]

\* WriteState::new, LogWriter::new: lines starts at 0, the mutex is free.
UInit ==
    /\ state_lines = 0
    /\ assume_raw_mode \in BOOLEAN
    /\ state_mutex = Unlocked
    /\ poisoned = FALSE
    /\ upc = [t \in UThreads |-> "idle"]
    /\ buf_len = [t \in UThreads |-> 0]
    /\ bytes_written = [t \in UThreads |-> 0]
    /\ retval = [t \in UThreads |-> 0]
    /\ raw_mode_guard = [t \in UThreads |-> FALSE]
    /\ uresult = [t \in UThreads |-> "none"]
    /\ raw_mode = assume_raw_mode
    /\ ops = <<>>
    /\ disables = 0
    /\ enables = 0
    /\ nwrites = 0
    /\ start_lines = 0
    /\ last_ret = 0
    /\ drawn = 0

\* log_bridge::init and ThreadedHandler::new: both channels empty, the
\* background thread spawned and about to call recv.
TInit ==
    /\ chan = <<>>
    /\ pool = <<>>
    /\ rx_alive = TRUE
    /\ pool_mutex = Unlocked
    /\ ppc = [p \in Producers |-> "idle"]
    /\ pbuf = [p \in Producers |-> 0]
    /\ nsent = 0
    /\ clone_closed = FALSE
    /\ cpc = "recv"
    /\ lines = 0
    /\ last_status = NoStatus
    /\ entry = None
    /\ drain_entry = None
    /\ guard = FALSE
    /\ panicking = FALSE
    /\ hpc = "live"
    /\ sink = <<>>
    /\ stdout = {}
    /\ enq = <<>>
    /\ cops = <<>>
    /\ burst = {}
    /\ after_close = {}

\* A channel item Some(buffer): the buffer's bytes, the bytes that were
\* passed to the write that sent it, and the length the buffer had when it
\* came from the free list (Fresh if it was allocated).
BSome(buf, arg, old) == [some |-> TRUE, buf |-> buf, arg |-> arg, old |-> old]
Fresh == -1

\* The channel item None, also standing for "no entry held".
BNone == [some |-> FALSE, buf |-> <<>>, arg |-> <<>>, old |-> Fresh]

\* log_bridge::init: one LogSender, both channels empty.
BInit ==
    /\ b_chan = <<>>
    /\ b_pool = <<>>
    /\ b_senders = 1
    /\ b_nwrites = 0
    /\ b_cpc = "idle"
    /\ b_entry = BNone
    /\ b_outcome = "none"
    /\ b_appended = <<>>

\* No handler was built yet.
NoHandler == [engine |-> "none", callback |-> 0, assume_raw_mode |-> FALSE]

\* Builder::new(output): no callback, assume_raw_mode: false.
GInit ==
    /\ builder_state = "Uninitialized"
    /\ builder_callback = 0
    /\ builder_assume_raw_mode = FALSE
    /\ builder_calls = <<>>
    /\ handler = NoHandler

\* log_bridge::init and ThreadedHandler::new, as far as buffers go: no
\* buffer exists, the background thread is about to call recv.
KInit ==
    /\ k_chan = <<>>
    /\ k_pool = <<>>
    /\ k_mutex = Unlocked
    /\ k_ppc = [p \in Producers |-> "idle"]
    /\ k_held = [p \in Producers |-> 0]
    /\ k_cpc = "recv"
    /\ k_entry = 0
    /\ k_drain = 0
    /\ k_allocated = 0
    /\ k_nwrites = 0

Init == UInit /\ TInit /\ BInit /\ GInit /\ KInit

UStep(t, to) ==
    /\ upc' = [upc EXCEPT ![t] = to]
    /\ UNCHANGED <<tvars, bvars, gvars, kvars>>

\* Mutex::lock succeeds only while no other thread holds the mutex.
LockFree_NoExclusion(t) == TRUE
LockFree(t) == state_mutex = Unlocked

\* The caller starts LogWriter::write(buf).
U_WriteCall(t) ==
    /\ upc[t] = "idle"
    /\ nwrites + Cardinality({u \in UThreads : upc[u] = "lock"}) < MaxWrites
    /\ \E n \in 0..MaxBuf : buf_len' = [buf_len EXCEPT ![t] = n]
    /\ bytes_written' = [bytes_written EXCEPT ![t] = 0]
    /\ uresult' = [uresult EXCEPT ![t] = "none"]
    /\ retval' = [retval EXCEPT ![t] = 0]
    /\ UStep(t, "lock")
    /\ UNCHANGED <<state_lines, assume_raw_mode, state_mutex, poisoned,
                   raw_mode_guard, raw_mode, ops, disables, enables, nwrites,
                   start_lines, last_ret, drawn>>

\* Mutex::lock returns Err(PoisonError) once a thread has panicked while it
\* held the guard; .expect(..) turns that into a panic of the caller.
LockIsErr_Recovered == FALSE
LockIsErr == poisoned

\* self.state.lock().expect(..) in write: panics on a poisoned mutex.
U_Lock(t) ==
    /\ upc[t] = "lock"
    /\ LockFree(t)
    /\ IF LockIsErr
       THEN /\ UStep(t, "idle")
            /\ uresult' = [uresult EXCEPT ![t] = "panic"]
            /\ UNCHANGED <<state_mutex, ops, nwrites, start_lines>>
       ELSE /\ UStep(t, "col0")
            /\ state_mutex' = t
            /\ ops' = <<>>
            /\ nwrites' = nwrites + 1
            /\ start_lines' = state_lines
            /\ UNCHANGED uresult
    /\ UNCHANGED <<state_lines, assume_raw_mode, poisoned, buf_len,
                   bytes_written, raw_mode_guard, raw_mode, disables, enables,
                   last_ret, drawn, retval>>

\* What is left of the status area after a sink operation: the pair
\* Clear(CurrentLine), MoveUp(1) erases one line and leaves the cursor one
\* line higher; with no status line left the line erased is a line of log
\* output, recorded as Overdrawn.
Overdrawn == -1
DrawnAfter(name) ==
    IF name # "MoveUp" THEN drawn
    ELSE IF drawn > 0 THEN drawn - 1 ELSE Overdrawn

\* A sink operation succeeded and the write moves on.
SinkOk(t, name, to) ==
    /\ ops' = Append(ops, Op(t, name))
    /\ drawn' = DrawnAfter(name)
    /\ UStep(t, to)
    /\ UNCHANGED <<state_lines, assume_raw_mode, state_mutex, poisoned,
                   buf_len, bytes_written, raw_mode_guard, uresult, raw_mode,
                   disables, enables, nwrites, start_lines, last_ret,
                   retval>>

\* The `?` return path: the locals are dropped in reverse order, first
\* raw_mode_guard (enable_raw_mode, if Some), then the MutexGuard.
ErrReturn_LeakGuard(t) ==
    /\ UStep(t, "idle")
    /\ uresult' = [uresult EXCEPT ![t] = "err"]
    /\ state_mutex' = Unlocked
    /\ raw_mode_guard' = [raw_mode_guard EXCEPT ![t] = FALSE]
    /\ UNCHANGED <<state_lines, assume_raw_mode, poisoned, buf_len,
                   bytes_written, raw_mode, ops, disables, enables,
                   nwrites, start_lines, last_ret, drawn, retval>>
ErrReturn_FlushFirst(t) ==
    /\ ops' = Append(ops, Op(t, "flush"))
    /\ UStep(t, "idle")
    /\ uresult' = [uresult EXCEPT ![t] = "err"]
    /\ state_mutex' = Unlocked
    /\ UNCHANGED <<state_lines, assume_raw_mode, poisoned, buf_len,
                   bytes_written, raw_mode_guard, raw_mode, disables, enables,
                   nwrites, start_lines, last_ret, drawn, retval>>
ErrReturn_ResetLines(t) ==
    /\ state_lines' = 0
    /\ UStep(t, "idle")
    /\ uresult' = [uresult EXCEPT ![t] = "err"]
    /\ state_mutex' = Unlocked
    /\ UNCHANGED <<assume_raw_mode, poisoned, buf_len, bytes_written,
                   raw_mode_guard, raw_mode, ops, disables, enables, nwrites,
                   start_lines, last_ret, drawn, retval>>
ErrReturn(t) ==
    IF raw_mode_guard[t]
    THEN /\ UStep(t, "err_guard")
         /\ UNCHANGED <<state_lines, assume_raw_mode, state_mutex, poisoned,
                        buf_len, bytes_written, raw_mode_guard, uresult,
                        raw_mode, ops, disables, enables, nwrites,
                        start_lines, last_ret, drawn, retval>>
    ELSE /\ UStep(t, "idle")
         /\ uresult' = [uresult EXCEPT ![t] = "err"]
         /\ state_mutex' = Unlocked
         /\ UNCHANGED <<state_lines, assume_raw_mode, poisoned, buf_len,
                        bytes_written, raw_mode_guard, raw_mode, ops,
                        disables, enables, nwrites, start_lines, last_ret, drawn,
                        retval>>

\* A panic while the MutexGuard is held: the mutex is released poisoned.
UPanic(t) ==
    /\ UStep(t, "idle")
    /\ uresult' = [uresult EXCEPT ![t] = "panic"]
    /\ state_mutex' = Unlocked
    /\ poisoned' = TRUE

\* The pc after the erase loop's bound check `0..state.lines`.
AfterReset == IF state_lines > 0 THEN "erase_clear" ELSE "clear"

\* How many (Clear, MoveUp) pairs the trace holds so far.
Pairs(s) == Cardinality({k \in 1..Len(s) : s[k].op = "MoveUp"})

\* The erase loop `for _ in 0..state.lines` goes on while pairs remain.
EraseMore_OneTooMany == Pairs(ops) + 1 < state_lines + 1
EraseMore == Pairs(ops) + 1 < state_lines

\* queue!(MoveToColumn(0), ResetColor), first command.
U_MoveToColumn(t) ==
    /\ upc[t] = "col0"
    /\ \/ SinkOk(t, "MoveToColumn", "reset")
       \/ ErrReturn(t)

\* queue!(MoveToColumn(0), ResetColor), second command.
U_ResetColor(t) ==
    /\ upc[t] = "reset"
    /\ \/ SinkOk(t, "ResetColor", AfterReset)
       \/ ErrReturn(t)

\* The erase loop's Clear(CurrentLine).
U_EraseClear(t) ==
    /\ upc[t] = "erase_clear"
    /\ \/ SinkOk(t, "Clear", "erase_up")
       \/ ErrReturn(t)

\* The erase loop's MoveUp(1).
U_EraseUp(t) ==
    /\ upc[t] = "erase_up"
    /\ \/ SinkOk(t, "MoveUp", IF EraseMore THEN "erase_clear" ELSE "clear")
       \/ ErrReturn(t)

\* Erase the current line.
U_ClearCurrent(t) ==
    /\ upc[t] = "clear"
    /\ \/ SinkOk(t, "Clear", IF assume_raw_mode THEN "guard" ELSE "payload")
       \/ ErrReturn(t)

\* RawModeGuard::new(): disable_raw_mode().expect(..).
U_Guard(t) ==
    /\ upc[t] = "guard"
    /\ ops' = Append(ops, Op(t, "disable_raw_mode"))
    /\ disables' = disables + 1
    /\ \/ /\ UStep(t, "payload")
          /\ raw_mode_guard' = [raw_mode_guard EXCEPT ![t] = TRUE]
          /\ raw_mode' = FALSE
          /\ UNCHANGED <<state_mutex, poisoned, uresult>>
       \/ /\ UPanic(t)
          /\ UNCHANGED <<raw_mode_guard, raw_mode>>
    /\ UNCHANGED <<state_lines, assume_raw_mode, buf_len, bytes_written,
                   enables, nwrites, start_lines, last_ret, drawn, retval>>

\* let bytes_written = state.output.write(buf)?
U_Payload(t) ==
    /\ upc[t] = "payload"
    /\ \/ /\ \E n \in 0..buf_len[t] :
                bytes_written' = [bytes_written EXCEPT ![t] = n]
          /\ ops' = Append(ops, Op(t, "write"))
          /\ UStep(t, IF raw_mode_guard[t] THEN "drop_guard" ELSE "exec_col0")
          /\ UNCHANGED <<state_lines, assume_raw_mode, state_mutex, poisoned,
                         buf_len, raw_mode_guard, uresult, raw_mode, disables,
                         enables, nwrites, start_lines, last_ret, drawn, retval>>
       \/ ErrReturn(t)

\* Drop for RawModeGuard: enable_raw_mode().expect(..); on the normal path
\* (drop(raw_mode_guard)) and on the `?` return path.
U_DropGuard(t) ==
    /\ upc[t] \in {"drop_guard", "err_guard"}
    /\ ops' = Append(ops, Op(t, "enable_raw_mode"))
    /\ enables' = enables + 1
    /\ raw_mode_guard' = [raw_mode_guard EXCEPT ![t] = FALSE]
    /\ \/ /\ raw_mode' = TRUE
          /\ IF upc[t] = "drop_guard"
             THEN /\ UStep(t, "exec_col0")
                  /\ UNCHANGED <<state_mutex, uresult>>
             ELSE /\ UStep(t, "idle")
                  /\ uresult' = [uresult EXCEPT ![t] = "err"]
                  /\ state_mutex' = Unlocked
          /\ UNCHANGED poisoned
       \/ /\ UPanic(t)
          /\ UNCHANGED raw_mode
    /\ UNCHANGED <<state_lines, assume_raw_mode, buf_len, bytes_written,
                   disables, nwrites, start_lines, last_ret, drawn, retval>>

\* execute!(MoveToColumn(0)): the command is queued ...
U_ExecMoveToColumn(t) ==
    /\ upc[t] = "exec_col0"
    /\ \/ SinkOk(t, "MoveToColumn", "exec_flush")
       \/ ErrReturn(t)

\* ... and execute! then flushes the writer.
U_ExecFlush(t) ==
    /\ upc[t] = "exec_flush"
    /\ \/ SinkOk(t, "flush", "callback")
       \/ ErrReturn(t)

\* What `state.lines = state.invoke_callback()?` stores for a return of c.
StoredLines_Keep(c) == state_lines
StoredLines(c) == c

\* state.lines = state.invoke_callback()?
U_Callback(t) ==
    /\ upc[t] = "callback"
    /\ \/ /\ \E c \in 0..MaxLines :
                /\ state_lines' = StoredLines(c)
                /\ last_ret' = c
                /\ drawn' = c
          /\ ops' = Append(ops, Op(t, "callback"))
          /\ UStep(t, "flush")
          /\ UNCHANGED <<assume_raw_mode, state_mutex, poisoned, buf_len,
                         bytes_written, raw_mode_guard, uresult, raw_mode,
                         disables, enables, nwrites, start_lines,
                         retval>>
       \/ ErrReturn(t)
       \/ /\ UPanic(t)
          /\ UNCHANGED <<state_lines, assume_raw_mode, buf_len, bytes_written,
                         raw_mode_guard, raw_mode, ops, disables, enables,
                         nwrites, start_lines, last_ret, drawn, retval>>

\* The n of the final Ok(bytes_written).
Returned_BufLen(t) == buf_len[t]
Returned(t) == bytes_written[t]

\* state.output.flush()?; Ok(bytes_written)
U_Flush(t) ==
    /\ upc[t] = "flush"
    /\ \/ /\ ops' = Append(ops, Op(t, "flush"))
          /\ UStep(t, "idle")
          /\ uresult' = [uresult EXCEPT ![t] = "ok"]
          /\ retval' = [retval EXCEPT ![t] = Returned(t)]
          /\ state_mutex' = Unlocked
          /\ UNCHANGED <<state_lines, assume_raw_mode, poisoned, buf_len,
                         bytes_written, raw_mode_guard, raw_mode, disables,
                         enables, nwrites, start_lines, last_ret, drawn>>
       \/ ErrReturn(t)

\* The caller starts LogWriter::flush().
U_FlushCall(t) ==
    /\ upc[t] = "idle"
    /\ UStep(t, "flush_lock")
    /\ uresult' = [uresult EXCEPT ![t] = "none"]
    /\ UNCHANGED <<state_lines, assume_raw_mode, state_mutex, poisoned,
                   buf_len, bytes_written, raw_mode_guard, raw_mode, ops,
                   disables, enables, nwrites, start_lines, last_ret, drawn,
                   retval>>

\* self.state.lock().expect(..) in flush.
U_FlushLock(t) ==
    /\ upc[t] = "flush_lock"
    /\ LockFree(t)
    /\ IF LockIsErr
       THEN /\ UStep(t, "idle")
            /\ uresult' = [uresult EXCEPT ![t] = "panic"]
            /\ UNCHANGED <<state_mutex, ops>>
       ELSE /\ UStep(t, "flush_only")
            /\ state_mutex' = t
            /\ ops' = <<>>
            /\ UNCHANGED uresult
    /\ UNCHANGED <<state_lines, assume_raw_mode, poisoned, buf_len,
                   bytes_written, raw_mode_guard, raw_mode, disables, enables,
                   nwrites, start_lines, last_ret, drawn, retval>>

\* What LogWriter::flush issues on the sink: state.output.flush().
FlushOnlyOps_Redraw(t) == <<Op(t, "callback"), Op(t, "flush")>>
FlushOnlyOps(t) == <<Op(t, "flush")>>

\* state.output.flush() in flush; its result is returned as it is.
U_FlushOnly(t) ==
    /\ upc[t] = "flush_only"
    /\ \/ /\ ops' = ops \o FlushOnlyOps(t)
          /\ uresult' = [uresult EXCEPT ![t] = "flushed"]
       \/ /\ ops' = ops
          /\ uresult' = [uresult EXCEPT ![t] = "flush_err"]
    /\ UStep(t, "idle")
    /\ state_mutex' = Unlocked
    /\ UNCHANGED <<state_lines, assume_raw_mode, poisoned, buf_len,
                   bytes_written, raw_mode_guard, raw_mode, disables, enables,
                   nwrites, start_lines, last_ret, drawn, retval>>

Next ==
    \E t \in UThreads :
        \/ U_WriteCall(t)
        \/ U_Lock(t)
        \/ U_MoveToColumn(t)
        \/ U_ResetColor(t)
        \/ U_EraseClear(t)
        \/ U_EraseUp(t)
        \/ U_ClearCurrent(t)
        \/ U_Guard(t)
        \/ U_Payload(t)
        \/ U_DropGuard(t)
        \/ U_ExecMoveToColumn(t)
        \/ U_ExecFlush(t)
        \/ U_Callback(t)
        \/ U_Flush(t)
        \/ U_FlushCall(t)
        \/ U_FlushLock(t)
        \/ U_FlushOnly(t)

Spec == Init /\ [][Next]_vars

\* ------------------------------------------------------- the log bridge

\* The groups of variables an action of one party leaves alone.
prod == <<pool_mutex, ppc, pbuf, nsent, clone_closed, stdout, after_close>>
cons == <<cpc, lines, last_status, entry, drain_entry, guard, panicking, sink, cops,
          burst>>
chans == <<chan, rx_alive, enq>>

PStep(p, to) ==
    /\ ppc' = [ppc EXCEPT ![p] = to]
    /\ UNCHANGED <<uvars, assume_raw_mode, raw_mode, bvars, gvars, kvars>>

\* SyncSender::send on the payload channel returns at once: the receiver is
\* gone (Err) or a slot is free (Ok); otherwise the caller blocks.
SendReady_Unbounded == TRUE
SendReady_AfterRedraw == ~rx_alive \/ (Len(chan) < Capacity /\ cpc = "recv")
SendReady == ~rx_alive \/ Len(chan) < Capacity

\* SyncSender::send on the free-list channel returns at once: a slot is free
\* (the pool receiver lives as long as any LogSender does).
PoolReady == Len(pool) < Capacity

\* Drop for LogEntry: `self.pool.send(buffer)` puts the entry's buffer at the
\* back of the free list.
Release_Leak(q, e) == q
Release(q, e) == Append(q, e.id)

\* The queue q with item x sent on it: mpsc channels are FIFO.
Enqueue_Front(q, x) == <<x>> \o q
Enqueue(q, x) == Append(q, x)

\* The items of a queue.
Items(q) == {q[k] : k \in 1..Len(q)}

\* self.sender.send(None), the result ignored; mark is its entry in enq.
SendNone_Skip(mark) == UNCHANGED <<chan, enq>>
SendNone(mark) ==
    IF rx_alive
    THEN /\ chan' = Enqueue(chan, None)
         /\ enq' = Append(enq, mark)
    ELSE UNCHANGED <<chan, enq>>

\* Some close() call has returned: the drop's, or one on a clone.
close_returned == hpc \in {"join", "done", "panicked"} \/ clone_closed

\* The payloads whose LogSender::write has returned.
returned == (1..nsent) \ {pbuf[p] : p \in Producers}

\* A producer calls LogSender::write(buf): self.pool.lock().expect(..)
\* returns once the pool mutex is free.
P_WriteLock(p) ==
    /\ ppc[p] = "idle"
    /\ nsent < MaxSends
    /\ pool_mutex = Unlocked
    /\ pool_mutex' = p
    /\ nsent' = nsent + 1
    /\ pbuf' = [pbuf EXCEPT ![p] = nsent + 1]
    /\ after_close' = IF close_returned THEN after_close \cup {nsent + 1}
                      ELSE after_close
    /\ PStep(p, "pool_take")
    /\ UNCHANGED <<clone_closed, stdout, pool, cons, chans, hpc>>

\* The free list after pool.try_recv(): Ok(buffer) takes the buffer at its
\* head for reuse; Err(_) leaves it empty and a new buffer is allocated.
\* A producer calls pool.try_recv() and then drop(pool).
TakeBuffer_Allocate(q) == q
TakeBuffer(q) == IF q # <<>> THEN Tail(q) ELSE q

P_PoolTake(p) ==
    /\ ppc[p] = "pool_take"
    /\ pool' = TakeBuffer(pool)
    /\ pool_mutex' = Unlocked
    /\ PStep(p, "send")
    /\ UNCHANGED <<pbuf, nsent, clone_closed, stdout, after_close, cons,
                   chans, hpc>>

\* print!("{}", std::str::from_utf8(&buffer.unwrap()).unwrap_or("")): what
\* reaches stdout is the payload if its bytes are valid UTF-8, and the empty
\* string, that is nothing, if they are not.
Printed_Extra(id, utf8) == {id, id + 1}
Printed(id, utf8) == IF utf8 THEN {id} ELSE {}

\* self.sender.send(Some(buffer)): enqueued, or printed to stdout when the
\* receiver is gone; then Ok(buf.len()).
P_Send(p) ==
    /\ ppc[p] = "send"
    /\ SendReady
    /\ IF rx_alive
       THEN /\ chan' = Enqueue(chan, Some(pbuf[p], p))
            /\ enq' = Append(enq, pbuf[p])
            /\ UNCHANGED stdout
       ELSE /\ \E utf8 \in BOOLEAN :
                   stdout' = stdout \cup Printed(pbuf[p], utf8)
            /\ UNCHANGED <<chan, enq>>
    /\ pbuf' = [pbuf EXCEPT ![p] = 0]
    /\ PStep(p, "idle")
    /\ UNCHANGED <<pool_mutex, nsent, clone_closed, after_close, pool,
                   rx_alive, cons, hpc>>

\* LogSender::close on a clone: let _ = self.sender.send(None), which
\* returns once the channel has a free slot or the receiver is gone.
P_Close(p) ==
    /\ ppc[p] = "idle"
    /\ ~clone_closed
    /\ SendReady
    /\ SendNone(CloneNone)
    /\ clone_closed' = TRUE
    /\ PStep(p, "idle")
    /\ UNCHANGED <<pool_mutex, pbuf, nsent, stdout, after_close, pool,
                   rx_alive, cons, hpc>>

\* --------------------------------------------- handle_logs (background thread)

COp(name, id) == [op |-> name, id |-> id]

CStep(to) ==
    /\ cpc' = to
    /\ UNCHANGED <<uvars, assume_raw_mode, prod, hpc, enq, bvars, gvars,
                   kvars>>

\* An .expect(..) fails: the thread panics and unwinds.
CPanic ==
    /\ CStep("unwind")
    /\ panicking' = TRUE

\* receiver.recv(): blocks while the channel is empty; a payload is bound to
\* entry, the sentinel ends the loop.
C_Recv ==
    /\ cpc = "recv"
    /\ chan # <<>>
    /\ chan' = Tail(chan)
    /\ IF Head(chan) = None
       THEN /\ CStep("unwind")
            /\ UNCHANGED <<entry, cops, burst>>
       ELSE /\ CStep("erase")
            /\ entry' = Head(chan)
            /\ cops' = <<>>
            /\ burst' = IF None \in Items(chan) THEN {}
                        ELSE {m.id : m \in Items(chan)}
    /\ UNCHANGED <<lines, last_status, drain_entry, guard, panicking, sink, pool, rx_alive,
                   raw_mode>>

\* n copies of the sequence s, one after the other.
RECURSIVE Repeat(_, _)
Repeat(s, n) == IF n = 0 THEN <<>> ELSE s \o Repeat(s, n - 1)

\* How often the erase loop `for _ in 0..lines` runs.
EraseRounds_OneTooMany == lines + 1
EraseRounds == lines

\* The operations on output before the payload: queue!(MoveToColumn(0),
\* ResetColor), `lines` times queue!(Clear, MoveUp(1)), queue!(Clear), each
\* with .expect(..). They touch nothing but the thread's own output.
C_Erase ==
    /\ cpc = "erase"
    /\ \/ /\ CStep(IF assume_raw_mode THEN "guard" ELSE "write")
          /\ cops' = <<COp("MoveToColumn", 0), COp("ResetColor", 0)>>
                     \o Repeat(<<COp("Clear", 0), COp("MoveUp", 0)>>,
                               EraseRounds)
                     \o <<COp("Clear", 0)>>
          /\ UNCHANGED panicking
       \/ /\ CPanic
          /\ UNCHANGED cops
    /\ UNCHANGED <<lines, last_status, entry, drain_entry, guard, sink, burst, chan, pool,
                   rx_alive, raw_mode>>

\* Some(RawModeGuard::new())
C_Guard ==
    /\ cpc = "guard"
    /\ cops' = Append(cops, COp("disable_raw_mode", 0))
    /\ \/ /\ CStep("write")
          /\ guard' = TRUE
          /\ raw_mode' = FALSE
          /\ UNCHANGED panicking
       \/ /\ CPanic
          /\ UNCHANGED <<guard, raw_mode>>
    /\ UNCHANGED <<lines, last_status, entry, drain_entry, sink, burst, chan, pool,
                   rx_alive>>

\* Where the loop body goes after the write of the received entry: into the
\* drain loop, `loop { match receiver.try_recv() ... }`.
AfterWrite_NoDrain == IF guard THEN "drop_guard" ELSE "exec"
AfterWrite == "drain"

\* let _ = output.write(&entry).expect(..)
C_WriteEntry ==
    /\ cpc = "write"
    /\ \/ /\ CStep(AfterWrite)
          /\ sink' = Append(sink, entry.id)
          /\ cops' = Append(cops, COp("write", entry.id))
          /\ UNCHANGED panicking
       \/ /\ CPanic
          /\ UNCHANGED <<sink, cops>>
    /\ UNCHANGED <<lines, last_status, entry, drain_entry, guard, burst, chan, pool,
                   rx_alive, raw_mode>>

\* Where the drain loop goes on Err(TryRecvError::Empty): break.
OnEmpty_Return == "unwind"
OnEmpty_KeepGuard == "exec"
OnEmpty == IF guard THEN "drop_guard" ELSE "exec"

\* Where the drain loop goes on Err(TryRecvError::Closed), the sentinel:
\* return.
OnClosed_Break == IF guard THEN "drop_guard" ELSE "exec"
OnClosed == "unwind"

\* receiver.try_recv() in the drain loop.
C_TryRecv ==
    /\ cpc = "drain"
    /\ IF chan = <<>>
       THEN /\ CStep(OnEmpty)
            /\ UNCHANGED <<chan, drain_entry>>
       ELSE /\ chan' = Tail(chan)
            /\ IF Head(chan) = None
               THEN /\ CStep(OnClosed)
                    /\ UNCHANGED drain_entry
               ELSE /\ CStep("drain_write")
                    /\ drain_entry' = Head(chan)
    /\ UNCHANGED <<lines, last_status, entry, guard, panicking, sink, cops, burst, pool,
                   rx_alive, raw_mode>>

\* let _ = output.write(&entry).expect(..) in the drain loop.
C_DrainWrite ==
    /\ cpc = "drain_write"
    /\ \/ /\ CStep("drain_drop")
          /\ sink' = Append(sink, drain_entry.id)
          /\ cops' = Append(cops, COp("write", drain_entry.id))
          /\ UNCHANGED panicking
       \/ /\ CPanic
          /\ UNCHANGED <<sink, cops>>
    /\ UNCHANGED <<lines, last_status, entry, drain_entry, guard, burst, chan, pool,
                   rx_alive, raw_mode>>

\* The drained entry goes out of scope: Drop for LogEntry sends its buffer
\* to the pool, blocking while the pool is full.
C_DrainDrop ==
    /\ cpc = "drain_drop"
    /\ PoolReady
    /\ pool' = Release(pool, drain_entry)
    /\ drain_entry' = None
    /\ CStep("drain")
    /\ UNCHANGED <<lines, last_status, entry, guard, panicking, sink, cops, burst, chan,
                   rx_alive, raw_mode>>

\* drop(raw_mode_guard)
C_DropGuard ==
    /\ cpc = "drop_guard"
    /\ cops' = Append(cops, COp("enable_raw_mode", 0))
    /\ guard' = FALSE
    /\ \/ /\ CStep("exec")
          /\ raw_mode' = TRUE
          /\ UNCHANGED panicking
       \/ /\ CPanic
          /\ UNCHANGED raw_mode
    /\ UNCHANGED <<lines, last_status, entry, drain_entry, sink, burst, chan, pool,
                   rx_alive>>

\* execute!(output, MoveToColumn(0)).expect(..): queue, then flush.
C_Exec ==
    /\ cpc = "exec"
    /\ \/ /\ CStep("callback")
          /\ cops' = cops \o <<COp("MoveToColumn", 0), COp("flush", 0)>>
          /\ UNCHANGED panicking
       \/ /\ CPanic
          /\ UNCHANGED cops
    /\ UNCHANGED <<lines, last_status, entry, drain_entry, guard, sink, burst, chan, pool,
                   rx_alive, raw_mode>>

\* What `lines = callback(&mut output).expect(..)` stores for a return of c.
StoredStatus(c) == c

\* lines = callback(&mut output).expect(..)
C_Callback ==
    /\ cpc = "callback"
    /\ \/ /\ CStep("flush")
          /\ \E c \in 0..MaxStatus :
                /\ lines' = StoredStatus(c)
                /\ last_status' = c
          /\ cops' = Append(cops, COp("callback", 0))
          /\ UNCHANGED panicking
       \/ /\ CPanic
          /\ UNCHANGED <<lines, last_status, cops>>
    /\ UNCHANGED <<entry, drain_entry, guard, sink, burst, chan, pool,
                   rx_alive, raw_mode>>

\* output.flush().expect(..)
C_Flush ==
    /\ cpc = "flush"
    /\ \/ /\ CStep("end_iter")
          /\ cops' = Append(cops, COp("flush", 0))
          /\ UNCHANGED panicking
       \/ /\ CPanic
          /\ UNCHANGED cops
    /\ UNCHANGED <<lines, last_status, entry, drain_entry, guard, sink, burst, chan, pool,
                   rx_alive, raw_mode>>

\* The loop body ends: entry goes out of scope and Drop for LogEntry sends
\* its buffer to the pool, blocking while the pool is full.
C_EndIter ==
    /\ cpc = "end_iter"
    /\ PoolReady
    /\ pool' = Release(pool, entry)
    /\ entry' = None
    /\ cops' = <<>>
    /\ burst' = {}
    /\ CStep("recv")
    /\ UNCHANGED <<lines, last_status, drain_entry, guard, panicking, sink, chan,
                   rx_alive, raw_mode>>

\* Leaving handle_logs (loop end, `return`, or a panic) drops the live
\* locals innermost first: the drained entry, ...
C_UnwindDrainEntry ==
    /\ cpc = "unwind"
    /\ drain_entry # None
    /\ PoolReady
    /\ pool' = Release(pool, drain_entry)
    /\ drain_entry' = None
    /\ CStep("unwind")
    /\ UNCHANGED <<lines, last_status, entry, guard, panicking, sink, cops, burst, chan,
                   rx_alive, raw_mode>>

\* ... raw_mode_guard (enable_raw_mode), ...
C_UnwindGuard ==
    /\ cpc = "unwind"
    /\ drain_entry = None
    /\ guard
    /\ guard' = FALSE
    /\ raw_mode' = TRUE
    /\ cops' = Append(cops, COp("enable_raw_mode", 0))
    /\ CStep("unwind")
    /\ UNCHANGED <<lines, last_status, entry, drain_entry, panicking, sink, burst, chan,
                   pool, rx_alive>>

\* ... the entry of `while let`, ...
C_UnwindEntry ==
    /\ cpc = "unwind"
    /\ drain_entry = None
    /\ ~guard
    /\ entry # None
    /\ PoolReady
    /\ pool' = Release(pool, entry)
    /\ entry' = None
    /\ CStep("unwind")
    /\ UNCHANGED <<lines, last_status, drain_entry, guard, panicking, sink, cops, burst,
                   chan, rx_alive, raw_mode>>

\* ... and last the LogReceiver: the channel is disconnected and what is
\* still queued in it is dropped. The thread has ended.
C_Exit ==
    /\ cpc = "unwind"
    /\ drain_entry = None
    /\ ~guard
    /\ entry = None
    /\ rx_alive' = FALSE
    /\ chan' = <<>>
    /\ cops' = <<>>
    /\ burst' = {}
    /\ CStep(IF panicking THEN "panicked" ELSE "exited")
    /\ UNCHANGED <<lines, last_status, entry, drain_entry, guard, panicking, sink, pool,
                   raw_mode>>

\* ------------------------------------------------ Drop for ThreadedHandler

HStep(to) ==
    /\ hpc' = to
    /\ UNCHANGED <<uvars, assume_raw_mode, raw_mode, prod, cons, pool,
                   rx_alive, bvars, gvars, kvars>>

\* The owner drops the ThreadedHandler: drop starts with
\* self.log_sender.close(), which returns once the channel has a free slot
\* or the receiver is gone.
H_Close ==
    /\ hpc = "live"
    /\ SendReady
    /\ SendNone(DropNone)
    /\ HStep("join")

\* join_handle.join().expect(..): returns when the thread has ended, and
\* panics if the thread panicked.
H_Join ==
    /\ hpc = "join"
    /\ cpc \in {"exited", "panicked"}
    /\ HStep(IF cpc = "panicked" THEN "panicked" ELSE "done")
    /\ UNCHANGED <<chan, enq>>

ProducerNext ==
    \E p \in Producers :
        \/ P_WriteLock(p)
        \/ P_PoolTake(p)
        \/ P_Send(p)
        \/ P_Close(p)

ConsumerNext ==
    \/ C_Recv
    \/ C_Erase
    \/ C_Guard
    \/ C_WriteEntry
    \/ C_TryRecv
    \/ C_DrainWrite
    \/ C_DrainDrop
    \/ C_DropGuard
    \/ C_Exec
    \/ C_Callback
    \/ C_Flush
    \/ C_EndIter
    \/ C_UnwindDrainEntry
    \/ C_UnwindGuard
    \/ C_UnwindEntry
    \/ C_Exit

HandlerNext == H_Close \/ H_Join

NextThreaded == ProducerNext \/ ConsumerNext \/ HandlerNext

SpecThreaded == Init /\ [][NextThreaded]_vars

\* ------------------------------------------------------- either engine

\* No LogWriter operation was started.
UnthreadedUnused ==
    /\ nwrites = 0
    /\ \A t \in UThreads : upc[t] = "idle" /\ uresult[t] = "none"

\* Builder::finish builds one of the two engines: a program runs the
\* unthreaded engine or the threaded one, with either raw-mode setting.
NextEngine ==
    \/ TInit /\ Next
    \/ UnthreadedUnused /\ NextThreaded

SpecEngine == Init /\ [][NextEngine]_vars

\* ------------------------------------------- the log bridge with its bytes

\* The payloads a caller may pass to LogSender::write.
Bytes == {0, 1}
RECURSIVE SeqsUpTo(_)
SeqsUpTo(n) ==
    IF n = 0 THEN {<<>>}
    ELSE SeqsUpTo(n - 1) \cup [1..n -> Bytes]

\* Vec::truncate(n) keeps the first n elements, Vec::extend appends.
Truncate(v, n) == IF n >= Len(v) THEN v ELSE SubSeq(v, 1, n)
Extend(v, bytes) == v \o bytes

\* `buffer.truncate(0); buffer.extend(buf)` on a buffer from the free list.
Refill_NoTruncate(buffer, buf) == Extend(buffer, buf)
Refill(buffer, buf) == Extend(Truncate(buffer, 0), buf)

\* The buffer LogSender::write sends: the head of the free list refilled,
\* or `buf.to_owned()` when try_recv on the free list fails.
BufferFor(buf) ==
    IF b_pool # <<>>
    THEN BSome(Refill(Head(b_pool), buf), buf, Len(Head(b_pool)))
    ELSE BSome(buf, buf, Fresh)

BStep(to) ==
    /\ b_cpc' = to
    /\ UNCHANGED <<assume_raw_mode, raw_mode, uvars, tvars, gvars, kvars>>

\* LogSender::write(buf) with the receiver alive: a buffer is taken or
\* allocated and sent; the send waits for a free slot.
B_Write ==
    /\ b_senders > 0
    /\ b_nwrites < MaxBridgeWrites
    /\ Len(b_chan) < Capacity
    /\ \E buf \in SeqsUpTo(MaxPayload) :
           b_chan' = Append(b_chan, BufferFor(buf))
    /\ b_pool' = (IF b_pool # <<>> THEN Tail(b_pool) ELSE b_pool)
    /\ b_nwrites' = b_nwrites + 1
    /\ BStep(b_cpc)
    /\ UNCHANGED <<b_senders, b_entry, b_outcome, b_appended>>

\* LogSender::close: sender.send(None).
B_Close ==
    /\ b_senders > 0
    /\ Len(b_chan) < Capacity
    /\ b_chan' = Append(b_chan, BNone)
    /\ BStep(b_cpc)
    /\ UNCHANGED <<b_pool, b_senders, b_nwrites, b_entry, b_outcome,
                   b_appended>>

\* LogSender::clone.
B_Clone ==
    /\ b_senders > 0
    /\ b_senders < MaxSenders
    /\ b_senders' = b_senders + 1
    /\ BStep(b_cpc)
    /\ UNCHANGED <<b_chan, b_pool, b_nwrites, b_entry, b_outcome, b_appended>>

\* A LogSender is dropped; with the last one the free list's receiver goes
\* and the buffers queued in it are freed.
B_DropSender ==
    /\ b_senders > 0
    /\ b_senders' = b_senders - 1
    /\ b_pool' = (IF b_senders = 1 THEN <<>> ELSE b_pool)
    /\ BStep(b_cpc)
    /\ UNCHANGED <<b_chan, b_nwrites, b_entry, b_outcome, b_appended>>

\* The receiving side calls LogReceiver::recv or LogReceiver::try_recv.
B_Call ==
    /\ b_cpc = "idle"
    /\ \E c \in {"recv", "try_recv"} : BStep(c)
    /\ b_outcome' = "none"
    /\ UNCHANGED <<b_chan, b_pool, b_senders, b_nwrites, b_entry, b_appended>>

\* What mpsc's recv / try_recv yield, mapped by `.ok().flatten()` and by
\* `.map_err(TryRecvError::from)?.ok_or(TryRecvError::Closed)`.
Outcome_DisconnectedIsEmpty(call) ==
    IF b_chan = <<>>
    THEN IF call = "recv" THEN "None" ELSE "Empty"
    ELSE IF Head(b_chan).some THEN "Entry"
         ELSE IF call = "recv" THEN "None" ELSE "Closed"
Outcome(call) ==
    IF b_chan = <<>>
    THEN IF call = "recv" THEN "None"
         ELSE IF b_senders = 0 THEN "Closed" ELSE "Empty"
    ELSE IF Head(b_chan).some THEN "Entry"
         ELSE IF call = "recv" THEN "None" ELSE "Closed"

\* Receiver::recv waits while the channel is empty and a sender is alive.
RecvReady == b_chan # <<>> \/ b_senders = 0

Receive(call) ==
    /\ b_outcome' = Outcome(call)
    /\ b_chan' = (IF b_chan = <<>> THEN b_chan ELSE Tail(b_chan))
    /\ IF Outcome(call) = "Entry"
       THEN b_entry' = Head(b_chan) /\ BStep("entry")
       ELSE b_entry' = b_entry /\ BStep("idle")
    /\ UNCHANGED <<b_pool, b_senders, b_nwrites, b_appended>>

\* LogReceiver::recv returns.
B_Recv ==
    /\ b_cpc = "recv"
    /\ RecvReady
    /\ Receive("recv")

\* LogReceiver::try_recv returns.
B_TryRecv ==
    /\ b_cpc = "try_recv"
    /\ Receive("try_recv")

\* Deref for LogEntry: the bytes the receiving side reads are the buffer's.
Deref(e) == e.buf

\* How many bytes one Write::write call on the sink may accept of n.
Accepts(n) == 0..n

\* `let _ = output.write(&entry)`: the sink takes the first k bytes and the
\* returned count is discarded.
B_Output ==
    /\ b_cpc = "entry"
    /\ \E k \in Accepts(Len(Deref(b_entry))) :
           b_appended' = SubSeq(Deref(b_entry), 1, k)
    /\ BStep("written")
    /\ UNCHANGED <<b_chan, b_pool, b_senders, b_nwrites, b_entry, b_outcome>>

\* Drop for LogEntry: the buffer goes to the free list, waiting for a free
\* slot; with no LogSender left the send fails and the buffer is freed.
B_Release ==
    /\ b_cpc = "written"
    /\ b_senders > 0 => Len(b_pool) < Capacity
    /\ b_pool' = (IF b_senders > 0 THEN Append(b_pool, b_entry.buf) ELSE b_pool)
    /\ b_entry' = BNone
    /\ b_appended' = <<>>
    /\ BStep("idle")
    /\ UNCHANGED <<b_chan, b_senders, b_nwrites, b_outcome>>

NextBridge ==
    \/ B_Write
    \/ B_Close
    \/ B_Clone
    \/ B_DropSender
    \/ B_Call
    \/ B_Recv
    \/ B_TryRecv
    \/ B_Output
    \/ B_Release

SpecBridge == Init /\ [][NextBridge]_vars

\* ------------------------------------------------------------ the builder

\* The callbacks a program may pass to with_callback.
Callbacks == {1, 2}

\* A builder method other than finish is called.
Called(name) ==
    /\ builder_state \in {"Uninitialized", "Unthreaded", "Threaded"}
    /\ Len(builder_calls) < MaxCalls
    /\ builder_calls' = Append(builder_calls, name)
    /\ UNCHANGED <<assume_raw_mode, raw_mode, uvars, tvars, bvars, kvars,
                   handler>>

\* `assume_raw_mode: self.assume_raw_mode` in the Builder a transition
\* returns.
Carried_Default(flag) == FALSE
Carried(flag) == flag

\* Builder<T, W>::with_callback, for every state T.
Builder_with_callback ==
    /\ Called("with_callback")
    /\ builder_state' = "Unthreaded"
    /\ \E c \in Callbacks : builder_callback' = c
    /\ builder_assume_raw_mode' = Carried(builder_assume_raw_mode)

\* Builder<T, W>::assume_raw_mode, for every state T.
Builder_assume_raw_mode ==
    /\ Called("assume_raw_mode")
    /\ builder_assume_raw_mode' = TRUE
    /\ UNCHANGED <<builder_state, builder_callback>>

\* Builder<Unthreaded<T, W>, W>::threaded.
Builder_threaded ==
    /\ builder_state = "Unthreaded"
    /\ Called("threaded")
    /\ builder_state' = "Threaded"
    /\ builder_assume_raw_mode' = Carried(builder_assume_raw_mode)
    /\ UNCHANGED builder_callback

\* Builder<Threaded<..>>::finish builds a ThreadedHandler,
\* Builder<Unthreaded<..>>::finish an UnthreadedHandler, from the builder's
\* callback and assume_raw_mode; the builder is consumed.
Builder_finish ==
    /\ builder_state \in {"Unthreaded", "Threaded"}
    /\ handler' = [engine |-> IF builder_state = "Threaded"
                               THEN "threaded" ELSE "unthreaded",
                   callback |-> builder_callback,
                   assume_raw_mode |-> builder_assume_raw_mode]
    /\ builder_state' = "consumed"
    /\ UNCHANGED <<assume_raw_mode, raw_mode, uvars, tvars, bvars, kvars,
                   builder_callback, builder_assume_raw_mode, builder_calls>>

NextBuilder ==
    \/ Builder_with_callback
    \/ Builder_assume_raw_mode
    \/ Builder_threaded
    \/ Builder_finish

SpecBuilder == Init /\ [][NextBuilder]_vars

\* ------------------------------------------------- the buffers of the bridge

KStep == UNCHANGED <<assume_raw_mode, raw_mode, uvars, tvars, bvars, gvars>>

\* A producer calls LogSender::write and asks for the pool mutex.
K_WriteCall(p) ==
    /\ k_ppc[p] = "idle"
    /\ k_nwrites < MaxPoolWrites
    /\ k_nwrites' = k_nwrites + 1
    /\ k_ppc' = [k_ppc EXCEPT ![p] = "lock"]
    /\ KStep
    /\ UNCHANGED <<k_chan, k_pool, k_mutex, k_held, k_cpc, k_entry, k_drain,
                   k_allocated>>

\* self.pool.lock() returns once no other producer holds the mutex.
K_Lock(p) ==
    /\ k_ppc[p] = "lock"
    /\ k_mutex = Unlocked
    /\ k_mutex' = p
    /\ k_ppc' = [k_ppc EXCEPT ![p] = "pool_take"]
    /\ KStep
    /\ UNCHANGED <<k_chan, k_pool, k_held, k_cpc, k_entry, k_drain,
                   k_allocated, k_nwrites>>

\* pool.try_recv() is Ok(buffer) exactly if the free list holds a buffer.
Reuses_Never(q) == FALSE
Reuses(q) == q # <<>>

\* The pool mutex after `drop(pool)`, which precedes the send.
AfterPop_KeepLock(p) == p
AfterPop(p) == Unlocked

\* match pool.try_recv(): the head of the free list is reused, or a new
\* buffer is allocated; then drop(pool).
K_Take(p) ==
    /\ k_ppc[p] = "pool_take"
    /\ IF Reuses(k_pool)
       THEN /\ k_held' = [k_held EXCEPT ![p] = Head(k_pool)]
            /\ k_pool' = Tail(k_pool)
            /\ UNCHANGED k_allocated
       ELSE /\ k_held' = [k_held EXCEPT ![p] = k_allocated + 1]
            /\ k_allocated' = k_allocated + 1
            /\ UNCHANGED k_pool
    /\ k_mutex' = AfterPop(p)
    /\ k_ppc' = [k_ppc EXCEPT ![p] = "send"]
    /\ KStep
    /\ UNCHANGED <<k_chan, k_cpc, k_entry, k_drain, k_nwrites>>

\* self.sender.send(Some(buffer)) with the receiver alive: it waits for a
\* free slot of the payload channel.
K_Send(p) ==
    /\ k_ppc[p] = "send"
    /\ Len(k_chan) < Capacity
    /\ k_chan' = Append(k_chan, k_held[p])
    /\ k_held' = [k_held EXCEPT ![p] = 0]
    /\ k_ppc' = [k_ppc EXCEPT ![p] = "idle"]
    /\ KStep
    /\ UNCHANGED <<k_pool, k_mutex, k_cpc, k_entry, k_drain, k_allocated,
                   k_nwrites>>

\* receiver.recv() of `while let` returns an entry.
K_Recv ==
    /\ k_cpc = "recv"
    /\ k_chan # <<>>
    /\ k_entry' = Head(k_chan)
    /\ k_chan' = Tail(k_chan)
    /\ k_cpc' = "drain"
    /\ KStep
    /\ UNCHANGED <<k_pool, k_mutex, k_ppc, k_held, k_drain, k_allocated,
                   k_nwrites>>

\* receiver.try_recv() of the drain loop: an entry, or Empty and the loop
\* is left.
K_TryRecv ==
    /\ k_cpc = "drain"
    /\ IF k_chan = <<>>
       THEN /\ k_cpc' = "end_iter"
            /\ UNCHANGED <<k_chan, k_drain>>
       ELSE /\ k_drain' = Head(k_chan)
            /\ k_chan' = Tail(k_chan)
            /\ k_cpc' = "drain_drop"
    /\ KStep
    /\ UNCHANGED <<k_pool, k_mutex, k_ppc, k_held, k_entry, k_allocated,
                   k_nwrites>>

\* The drained entry is dropped at the end of its match arm: its buffer is
\* sent to the free list, waiting for a free slot.
K_DrainDrop ==
    /\ k_cpc = "drain_drop"
    /\ Len(k_pool) < Capacity
    /\ k_pool' = Append(k_pool, k_drain)
    /\ k_drain' = 0
    /\ k_cpc' = "drain"
    /\ KStep
    /\ UNCHANGED <<k_chan, k_mutex, k_ppc, k_held, k_entry, k_allocated,
                   k_nwrites>>

\* The entry of `while let` is dropped at the end of the iteration.
K_EndIter ==
    /\ k_cpc = "end_iter"
    /\ Len(k_pool) < Capacity
    /\ k_pool' = Append(k_pool, k_entry)
    /\ k_entry' = 0
    /\ k_cpc' = "recv"
    /\ KStep
    /\ UNCHANGED <<k_chan, k_mutex, k_ppc, k_held, k_drain, k_allocated,
                   k_nwrites>>

NextPool ==
    \/ \E p \in Producers :
           \/ K_WriteCall(p)
           \/ K_Lock(p)
           \/ K_Take(p)
           \/ K_Send(p)
    \/ K_Recv
    \/ K_TryRecv
    \/ K_DrainDrop
    \/ K_EndIter

SpecPool == Init /\ [][NextPool]_vars

\* ------------------------------------------- claims: the unthreaded engine

\* The names of the operations of a trace, without the issuing thread.
Names(s) == [k \in 1..Len(s) |-> s[k].op]

\* The raw-mode toggles of a trace, in order.
Toggles(s) ==
    SelectSeq(Names(s),
              LAMBDA o : o \in {"disable_raw_mode", "enable_raw_mode"})

\* Where operation o first occurs in the trace s, 0 if nowhere.
IndexOf(s, o) ==
    IF \E k \in 1..Len(s) : s[k].op = o
    THEN CHOOSE k \in 1..Len(s) :
            s[k].op = o /\ \A j \in 1..(k - 1) : s[j].op # o
    ELSE 0

\* Thread t's write has returned Ok or Err and ops is the trace of that call.
WriteReturned(t) ==
    /\ upc[t] = "idle"
    /\ uresult[t] \in {"ok", "err"}
    /\ state_mutex = Unlocked
    /\ ops # <<>>
    /\ ops[Len(ops)].t = t

\* Thread t's write is at the payload step or beyond it.
AtOrPastPayload(t) ==
    upc[t] \in {"payload", "drop_guard", "err_guard", "exec_col0",
                "exec_flush", "callback", "flush"}

\* C1: in every write that reaches the payload step, the number of
\* (Clear, MoveUp) pairs issued before the payload equals the count the
\* render callback returned last (the previous write's), 0 in the first write.
C1_LineCountInvariant ==
    \A t \in UThreads :
        upc[t] \in {"guard", "payload"} =>
            /\ Pairs(ops) = (IF nwrites = 1 THEN 0 ELSE start_lines)
            /\ start_lines = last_ret

C1_Witness ==
    \E t \in UThreads :
        /\ upc[t] = "payload"
        /\ nwrites >= 2
        /\ last_ret = 2
        /\ Pairs(ops) = 2

\* C8: with assume_raw_mode, a write that got past the erase steps toggles
\* raw mode exactly once off and once on, the payload write between the two,
\* also when the payload write or the callback fails; whenever no call is in
\* progress and nothing panicked, disables and enables are equal in number
\* and the terminal is back in raw mode.
C8_RawModeToggling ==
    assume_raw_mode =>
        /\ \A t \in UThreads :
              WriteReturned(t) =>
                  /\ Toggles(ops) \in
                        {<<>>, <<"disable_raw_mode", "enable_raw_mode">>}
                  /\ Len(ops) >= 3 + 2 * start_lines + 1 =>
                        Toggles(ops) = <<"disable_raw_mode", "enable_raw_mode">>
                  /\ IndexOf(ops, "write") # 0 =>
                        /\ IndexOf(ops, "disable_raw_mode") # 0
                        /\ IndexOf(ops, "disable_raw_mode") < IndexOf(ops, "write")
                        /\ IndexOf(ops, "write") < IndexOf(ops, "enable_raw_mode")
        /\ (state_mutex = Unlocked /\ ~poisoned) =>
              /\ disables = enables
              /\ raw_mode

\* A write whose payload write failed has returned Err with raw mode restored.
C8_Witness ==
    /\ assume_raw_mode
    /\ \E t \in UThreads :
          /\ WriteReturned(t)
          /\ uresult[t] = "err"
          /\ IndexOf(ops, "write") = 0
          /\ Toggles(ops) = <<"disable_raw_mode", "enable_raw_mode">>
          /\ disables = enables

\* The head of a redraw: up to and including the payload and the raw-mode
\* toggles around it.
RedrawHead(L, raw) ==
    <<"MoveToColumn", "ResetColor">> \o Repeat(<<"Clear", "MoveUp">>, L)
        \o <<"Clear">>
        \o (IF raw THEN <<"disable_raw_mode">> ELSE <<>>)
        \o <<"write">>
        \o (IF raw THEN <<"enable_raw_mode">> ELSE <<>>)

\* s is a prefix of e.
IsPrefix(s, e) == Len(s) <= Len(e) /\ \A k \in 1..Len(s) : s[k] = e[k]

\* The order C9 states.
StatedOrder(L, raw) ==
    RedrawHead(L, raw) \o <<"MoveToColumn", "callback", "flush">>

\* The order with the flush that execute!(MoveToColumn(0)) performs.
ExecuteOrder(L, raw) ==
    RedrawHead(L, raw) \o <<"MoveToColumn", "flush", "callback", "flush">>

\* C9 as stated: a successful write issues exactly StatedOrder, and the
\* callback's count is not yet stored while the final flush is pending.
C9_StatedRedrawOrder ==
    \A t \in UThreads :
        /\ (WriteReturned(t) /\ uresult[t] = "ok") =>
              Names(ops) = StatedOrder(start_lines, assume_raw_mode)
        /\ upc[t] = "flush" => state_lines = start_lines

\* C9 amended: a successful write issues exactly ExecuteOrder (a flush also
\* follows the second move-to-column-0, before the callback), and the
\* callback's count is stored as soon as the callback returns, before the
\* final flush.
C9_RedrawOrder ==
    \A t \in UThreads :
        /\ (WriteReturned(t) /\ uresult[t] = "ok") =>
              Names(ops) = ExecuteOrder(start_lines, assume_raw_mode)
        /\ upc[t] = "flush" =>
              /\ state_lines = last_ret
              /\ IsPrefix(Names(ops),
                          ExecuteOrder(start_lines, assume_raw_mode))

C9_Witness ==
    \E t \in UThreads :
        /\ WriteReturned(t)
        /\ uresult[t] = "ok"
        /\ start_lines = 2
        /\ assume_raw_mode
        /\ state_lines = 1
        /\ Names(ops) = ExecuteOrder(2, TRUE)

\* Thread t holds the lock: it is past lock() in write or in flush.
InProgress(t) == upc[t] \notin {"idle", "lock", "flush_lock"}

\* C10: at most one write or flush is in progress on the engine at a time;
\* the thread in progress holds the mutex and every operation issued since
\* the lock was taken is its own.
C10_MutualExclusion ==
    /\ Cardinality({t \in UThreads : InProgress(t)}) <= 1
    /\ \A t \in UThreads :
          InProgress(t) =>
              /\ state_mutex = t
              /\ \A k \in 1..Len(ops) : ops[k].t = t

\* One thread is inside its second redraw while the other waits for the lock.
C10_Witness ==
    \E t, u \in UThreads :
        /\ t # u
        /\ upc[t] = "callback"
        /\ upc[u] \in {"lock", "flush_lock"}
        /\ nwrites >= 2

\* ---------------------------------------------------------------------
\* Properties of the threaded engine
\* ---------------------------------------------------------------------

\* The elements of a sequence.
Range(s) == {s[k] : k \in 1..Len(s)}

\* The payloads of the enqueue history, in enqueue order.
RECURSIVE Payloads(_)
Payloads(s) ==
    IF s = <<>> THEN <<>>
    ELSE IF Head(s) > 0 THEN <<Head(s)>> \o Payloads(Tail(s))
    ELSE Payloads(Tail(s))

\* The entries of the enqueue history that precede the first entry in marks
\* (all of them if there is none).
RECURSIVE Before(_, _)
Before(s, marks) ==
    IF s = <<>> \/ Head(s) \in marks THEN <<>>
    ELSE <<Head(s)>> \o Before(Tail(s), marks)

\* The payloads the consumer wrote to the sink in the current iteration.
WrittenNow == {cops[k].id : k \in {j \in 1..Len(cops) : cops[j].op = "write"}}

\* How often the render callback ran in the current iteration.
CallbacksNow == Cardinality({k \in 1..Len(cops) : cops[k].op = "callback"})

\* C2: teardown terminates. Once Drop for ThreadedHandler has sent the
\* sentinel and waits in join, and no sink or callback operation has failed,
\* the teardown can always make progress on its own: the background thread
\* can take a step or the join can return. The producers are not counted:
\* the claim covers every number of payloads sent before the drop, so they
\* may have stopped writing.
C2_TeardownTerminates ==
    (hpc = "join" /\ ~panicking) => (ENABLED ConsumerNext \/ ENABLED H_Join)

\* C3: close-then-send fallback. Once the background thread is gone, every
\* payload whose write was called after a close() had returned, and whose
\* write has returned, was emitted: on stdout, or else on the sink.
C3_CloseThenSend ==
    ~rx_alive =>
        \A id \in after_close \cap returned : id \in stdout \cup Range(sink)

C5_Coalescing ==
    /\ CallbacksNow <= 1
    /\ CallbacksNow = 1 => burst \subseteq WrittenNow
    /\ cpc = "end_iter" => CallbacksNow = 1

\* An iteration that began with two queued payloads has completed.
C5_Witness ==
    /\ cpc = "end_iter"
    /\ Cardinality(burst) >= 2
    /\ burst \subseteq WrittenNow

\* C6: backpressure. The payload channel never holds more than Capacity
\* items, and a producer whose write has reached the send while the channel
\* is full and the consumer alive cannot complete it.
C6_Backpressure ==
    /\ Len(chan) <= Capacity
    /\ \A p \in Producers :
           (ppc[p] = "send" /\ rx_alive /\ Len(chan) = Capacity) =>
               ~ENABLED P_Send(p)

\* A producer is blocked in send on a full channel.
C6_Witness ==
    \E p \in Producers :
        /\ ppc[p] = "send"
        /\ rx_alive
        /\ Len(chan) = Capacity
        /\ None \notin Items(chan)

\* The entries the background thread holds, oldest first.
Held == (IF entry = None THEN <<>> ELSE <<entry>>)
            \o (IF drain_entry = None THEN <<>> ELSE <<drain_entry>>)

\* C7: FIFO delivery. The sink holds the payloads in the order of their
\* enqueueing, with no gap; and the payloads of one producer that are held
\* by the background thread or still queued are in the order of that
\* producer's write calls, whether received by recv or by try_recv.
C7_FifoDelivery ==
    /\ IsPrefix(sink, Payloads(enq))
    /\ LET flight == Held \o chan
       IN \A i, j \in 1..Len(flight) :
              (i < j /\ flight[i] # None /\ flight[i].p = flight[j].p) =>
                  flight[i].id < flight[j].id

\* Two payloads of one producer are on the sink, the first received by recv
\* and the second by try_recv in the drain loop.
C7_Witness ==
    /\ cpc = "drain_drop"
    /\ entry.p = drain_entry.p
    /\ sink = <<entry.id, drain_entry.id>>

\* C11: threaded write is decoupled from redraw. Wherever the background
\* thread is, a write that has the pool mutex can take its buffer, and a
\* write that has reached the send can complete it while the channel is not
\* full; a write call waits for the pool mutex only while another producer
\* holds it.
C11_WriteDecoupled ==
    \A p \in Producers :
        /\ ppc[p] = "pool_take" => ENABLED P_PoolTake(p)
        /\ (ppc[p] = "send" /\ Len(chan) < Capacity) => ENABLED P_Send(p)
        /\ pool_mutex \in {Unlocked} \cup Producers

\* A write is about to send, the channel not full, while the background
\* thread is inside the render callback.
C11_Witness ==
    \E p \in Producers :
        /\ ppc[p] = "send"
        /\ Len(chan) < Capacity
        /\ rx_alive
        /\ cpc = "callback"

\* Thread t's write has returned Err and ops is the trace of that call.
ErrReturned(t) ==
    /\ upc[t] = "idle"
    /\ uresult[t] = "err"
    /\ state_mutex = Unlocked
    /\ \A k \in 1..Len(ops) : ops[k].t = t

\* s is a prefix of e and shorter than e.
IsProperPrefix(s, e) == IsPrefix(s, e) /\ Len(s) < Len(e)

\* A redraw up to the acquisition of the raw-mode guard.
HeadToDisable(L) ==
    <<"MoveToColumn", "ResetColor">> \o Repeat(<<"Clear", "MoveUp">>, L)
        \o <<"Clear", "disable_raw_mode">>

\* C12 as stated: a write that returned an error performed the steps of the
\* sequence up to the failed one and none after it.
C12_StatedErrorPolicy ==
    \A t \in UThreads :
        ErrReturned(t) =>
            IsProperPrefix(Names(ops),
                           ExecuteOrder(start_lines, assume_raw_mode))

\* C12 amended: a write that returned an error performed the sink and
\* callback steps up to the failed one and none after it, except that a
\* failed payload write under assume_raw_mode is followed by the release of
\* the raw-mode guard (enable raw mode) before the error is returned; the
\* guard is never left held.
C12_ErrorPolicy ==
    \A t \in UThreads :
        /\ ErrReturned(t) =>
              \/ /\ IsProperPrefix(Names(ops),
                                   ExecuteOrder(start_lines, assume_raw_mode))
                 /\ Names(ops) # HeadToDisable(start_lines)
              \/ /\ assume_raw_mode
                 /\ Names(ops) =
                        HeadToDisable(start_lines) \o <<"enable_raw_mode">>
        /\ upc[t] = "err_guard" =>
              /\ raw_mode_guard[t]
              /\ Names(ops) = HeadToDisable(start_lines)

\* A write whose render callback failed has returned the error: the callback
\* and the final flush are missing from its trace.
C12_Witness ==
    \E t \in UThreads :
        /\ ErrReturned(t)
        /\ assume_raw_mode
        /\ start_lines = 1
        /\ Names(ops) = RedrawHead(1, TRUE) \o <<"MoveToColumn", "flush">>

\* C13: threaded error policy. Once a sink operation or the render callback
\* has failed, the background thread only unwinds (it receives and writes no
\* further payload and does not invoke the callback), the join in drop does
\* not return normally, and a drop that waits in join gets its report: the
\* unwinding thread can take a step, or the join can return with the panic.
C13_ThreadedErrorPolicy ==
    panicking =>
        /\ cpc \in {"unwind", "panicked"}
        /\ hpc # "done"
        /\ hpc = "join" => (ENABLED ConsumerNext \/ ENABLED H_Join)

\* C14: fallback after thread exit. Once the background thread has exited,
\* a write that has reached the send, blocked on a full channel or not, can
\* complete; and every payload whose write has returned was either enqueued
\* on the channel or printed on stdout.
C14_FallbackAfterExit ==
    /\ \A p \in Producers :
           (~rx_alive /\ ppc[p] = "send") => ENABLED P_Send(p)
    /\ \A id \in returned : id \in Range(enq) \cup stdout

\* How many close sentinels the sequence s holds.
Sentinels(s, marks) == Cardinality({k \in 1..Len(s) : s[k] \in marks})

\* The background thread has taken a close sentinel off the channel (or has
\* ended and dropped the channel with it).
SentinelObserved ==
    Sentinels(enq, {CloneNone, DropNone}) > Sentinels(chan, {None})

\* C15: sentinel permanence. From the moment the background thread has
\* observed the sentinel, in recv or in try_recv, no step writes a payload
\* to the sink, invokes the render callback or changes the line count, also
\* while payloads are queued behind the sentinel.
C15_SentinelPermanence ==
    [][SentinelObserved =>
           /\ sink' = sink
           /\ lines' = lines
           /\ CallbacksNow' <= CallbacksNow
           /\ cpc' \in {"unwind", "exited", "panicked"}]_vars

\* The sentinel was observed in the drain loop, without any failure, while a
\* payload is queued behind it.
C15_Witness ==
    /\ cpc = "unwind"
    /\ ~panicking
    /\ cops # <<>>
    /\ SentinelObserved
    /\ \E k \in 1..Len(chan) : chan[k] # None

\* C16 as stated: over the lifetime of the channel pair at most one sentinel
\* is ever enqueued.
C16_StatedSingleSentinel == Sentinels(enq, {CloneNone, DropNone}) <= 1

\* A step is a close() call that returns: on a clone, or the one in drop.
CloseStep(mark) ==
    IF mark = CloneNone THEN ~clone_closed /\ clone_closed'
    ELSE hpc = "live" /\ hpc' = "join"

\* C16 amended: every close() call enqueues one sentinel at the tail of the
\* channel while the receiver is alive, a second call as well, and nothing
\* once the receiver is gone; the background thread takes at most one
\* sentinel off the channel, so a later sentinel changes nothing in what it
\* does.
C16_CloseIdempotentInEffect ==
    [][/\ \A mark \in {CloneNone, DropNone} :
              CloseStep(mark) =>
                  IF rx_alive
                  THEN chan' = Append(chan, None) /\ enq' = Append(enq, mark)
                  ELSE UNCHANGED <<chan, enq>>
       /\ rx_alive' =>
              Sentinels(enq', {CloneNone, DropNone})
                  - Sentinels(chan', {None}) <= 1]_vars

\* Both a clone and the drop have closed, two sentinels were enqueued, and
\* the background thread has ended normally.
C16_Witness ==
    /\ Sentinels(enq, {CloneNone, DropNone}) = 2
    /\ cpc = "exited"
    /\ hpc = "done"

\* The buffers that are on their way: held by a producer about to send,
\* queued on the payload channel, or held by the background thread.
InFlight ==
    Cardinality({p \in Producers : ppc[p] = "send"})
        + Cardinality({k \in 1..Len(chan) : chan[k] # None})
        + Len(Held)

\* The buffers that exist: in flight or in the free list.
Alive == InFlight + Len(pool)

\* C17: buffer reuse. A write that takes its buffer while no buffer is in
\* flight (every earlier payload was processed and released) allocates only
\* if no buffer exists yet: with a buffer in the free list it takes that one,
\* so sends that follow each other in this way never have more than the one
\* buffer of the first send.
C17_BufferReuse ==
    [][\A p \in Producers :
           (ppc[p] = "pool_take" /\ ppc'[p] = "send" /\ InFlight = 0) =>
               Alive' = (IF Alive = 0 THEN 1 ELSE Alive)]_vars

\* MaxSends payloads were sent one after the other, each written and
\* released before the next, and one buffer exists.
C17_Witness ==
    /\ nsent = MaxSends
    /\ Len(sink) = MaxSends
    /\ rx_alive
    /\ InFlight = 0
    /\ Alive = 1

\* Every payload write of the current iteration has a callback invocation
\* and, after that, a flush behind it.
StatusDrawnAfterWrites ==
    \A k \in 1..Len(cops) :
        cops[k].op = "write" =>
            \E i, j \in 1..Len(cops) :
                /\ k < i
                /\ i < j
                /\ cops[i].op = "callback"
                /\ cops[j].op = "flush"

\* C18: the status line follows every log write. When the background thread
\* ends an iteration, or leaves its loop without a failure, every payload it
\* wrote to the sink in that iteration is followed by an invocation of the
\* render callback and a flush.
C18_StatusFollowsWrite ==
    (cpc = "end_iter" \/ (cpc = "unwind" /\ ~panicking)) =>
        StatusDrawnAfterWrites

\* C19: the value of a successful write(buf) is the count the sink's write
\* accepted for the payload, between 0 and len(buf); that count is set by
\* the payload write alone, so no control sequence and nothing the callback
\* writes is counted in it.
C19_WriteReturnValue ==
    /\ [](\A t \in UThreads :
              /\ bytes_written[t] \in 0..buf_len[t]
              /\ uresult[t] = "ok" => retval[t] = bytes_written[t])
    /\ [][\A t \in UThreads :
              bytes_written'[t] # bytes_written[t] =>
                  upc[t] \in {"idle", "payload"}]_vars

\* A write of one byte has returned Ok(0) after a full redraw: the sink
\* accepted none of the payload.
C19_Witness ==
    \E t \in UThreads :
        /\ WriteReturned(t)
        /\ uresult[t] = "ok"
        /\ buf_len[t] = 1
        /\ retval[t] = 0
        /\ \E k \in 1..Len(ops) : ops[k].op = "callback"

\* Thread t is inside LogWriter::flush.
InFlush(t) == upc[t] \in {"flush_lock", "flush_only"}

\* C20: flush only flushes. A step of LogWriter::flush changes neither the
\* stored line count nor the raw mode, and what a flush issued on the sink
\* under the lock is a single flush and nothing else: no erase or cursor
\* operation, no payload, no raw-mode toggle and no callback invocation.
C20_FlushOnlyFlushes ==
    /\ [](\A t \in UThreads :
              /\ upc[t] = "flush_only" => ops = <<>>
              /\ (upc[t] = "idle" /\ uresult[t] = "flushed"
                      /\ state_mutex = Unlocked /\ ops # <<>>
                      /\ \A k \in 1..Len(ops) : ops[k].t = t) =>
                     Names(ops) = <<"flush">>)
    /\ [][\A t \in UThreads :
              (InFlush(t) /\ upc'[t] # upc[t]) =>
                  /\ state_lines' = state_lines
                  /\ last_ret' = last_ret
                  /\ raw_mode' = raw_mode
                  /\ raw_mode_guard' = raw_mode_guard
                  /\ disables' = disables
                  /\ enables' = enables
                  /\ bytes_written' = bytes_written]_vars

\* A flush has returned while a status of two extra lines is stored.
C20_Witness ==
    \E t \in UThreads :
        /\ upc[t] = "idle"
        /\ uresult[t] = "flushed"
        /\ state_mutex = Unlocked
        /\ ops = <<Op(t, "flush")>>
        /\ state_lines = 2

\* C21: lock poisoning is fatal. Once a write has panicked under the state
\* lock, no thread is ever inside a write or a flush again: every later call
\* panics at the lock, and no step issues a sink operation, invokes the
\* callback or changes the stored line count.
C21_PoisoningIsFatal ==
    /\ [](poisoned =>
              /\ state_mutex = Unlocked
              /\ \A t \in UThreads : ~InProgress(t))
    /\ [][poisoned =>
              /\ poisoned'
              /\ ops' = ops
              /\ state_lines' = state_lines
              /\ disables' = disables
              /\ enables' = enables
              /\ \A t \in UThreads :
                     (upc[t] \in {"lock", "flush_lock"} /\ upc'[t] # upc[t]) =>
                         upc'[t] = "idle" /\ uresult'[t] = "panic"]_vars

\* A write panicked under the lock and the other thread's call panicked at
\* the lock.
C21_Witness ==
    /\ poisoned
    /\ \A t \in UThreads : upc[t] = "idle" /\ uresult[t] = "panic"

\* How many (Clear, MoveUp) pairs the current iteration has issued.
PairsNow == Cardinality({k \in 1..Len(cops) : cops[k].op = "MoveUp"})

\* The background thread is inside an iteration, past the erase steps.
PastErase ==
    cpc \in {"guard", "write", "drain", "drain_write", "drain_drop",
             "drop_guard", "exec", "callback"}

\* C22: threaded line-count tracking. In every iteration of the background
\* loop the erase steps issue as many (Clear, MoveUp) pairs as the render
\* callback returned last, none in the first iteration, however many
\* payloads the iteration before had coalesced.
C22_ThreadedLineCount ==
    /\ lines = (IF last_status = NoStatus THEN 0 ELSE last_status)
    /\ PastErase => PairsNow = lines

\* After two payloads were written and the callback returned MaxStatus, the
\* next iteration has erased MaxStatus lines.
C22_Witness ==
    /\ cpc = "write"
    /\ Len(sink) = 2
    /\ last_status = MaxStatus
    /\ PairsNow = MaxStatus

\* Thread t's write returns an error in this step, from a step up to and
\* including the render callback.
FailsBeforeStore(t) ==
    /\ upc[t] \notin {"idle", "lock", "flush", "flush_lock", "flush_only"}
    /\ upc'[t] = "idle"
    /\ uresult'[t] = "err"

\* C23: a failed unthreaded write leaves the line count unchanged. When a
\* write returns an error from any step up to and including the render
\* callback, state.lines is what it was when the write took the lock; and
\* state.lines always is what the last successful callback returned, 0 if
\* none did.
C23_FailedWriteKeepsLines ==
    /\ [](state_lines = last_ret)
    /\ [][\A t \in UThreads : FailsBeforeStore(t) =>
               (state_lines' = start_lines /\ state_lines' = state_lines)]_vars

\* A write whose render callback failed has returned the error; the count
\* of two stored by the write before is still stored.
C23_Witness ==
    \E t \in UThreads :
        /\ ErrReturned(t)
        /\ Names(ops) = RedrawHead(2, assume_raw_mode)
                            \o <<"MoveToColumn", "flush">>
        /\ start_lines = 2
        /\ state_lines = 2

\* C24: buffer return on all exit paths. Whenever the background thread
\* lets go of a LogEntry (at the end of an iteration, at the end of a drain
\* step, on the return after the sentinel, while unwinding from a panic),
\* the entry's buffer is put at the back of the free list in that step; and
\* a thread that has ended, normally or by a panic, holds no entry.
C24_BufferReturn ==
    /\ [](cpc \in {"exited", "panicked"} => entry = None /\ drain_entry = None)
    /\ [][/\ (entry # None /\ entry' # entry) =>
                 (entry' = None /\ pool' = Append(pool, entry.id))
          /\ (drain_entry # None /\ drain_entry' # drain_entry) =>
                 (drain_entry' = None /\ pool' = Append(pool, drain_entry.id))]_vars

\* The thread has ended by a panic after it wrote one payload and had
\* received a second one; both buffers are in the free list.
C24_Witness ==
    /\ cpc = "panicked"
    /\ Len(sink) = 1
    /\ Len(pool) = 2
    /\ Len(enq) >= 2

\* C25: payload integrity under reuse. The bytes read from a LogEntry, and
\* the bytes of every payload still queued, are exactly the bytes that were
\* passed to the LogSender::write that sent it, whether the buffer was
\* allocated or came from the free list with a longer or a shorter content.
C25_PayloadIntegrity ==
    /\ b_entry.some => Deref(b_entry) = b_entry.arg
    /\ \A k \in 1..Len(b_chan) :
           b_chan[k].some => Deref(b_chan[k]) = b_chan[k].arg

\* The receiving side holds an entry with a payload of one byte whose buffer
\* came from the free list holding two bytes.
C25_Witness ==
    /\ b_entry.some
    /\ Len(Deref(b_entry)) = 1
    /\ b_entry.old = 2

\* C26: payload written verbatim (threaded engine). Once output.write has
\* returned for a received entry, the bytes the sink appended for it are the
\* whole payload.
C26_WrittenVerbatim ==
    b_cpc = "written" => b_appended = Deref(b_entry)

\* The head of the payload channel is a payload.
PayloadAtHead == b_chan # <<>> /\ Head(b_chan).some

\* The head of the payload channel is the close sentinel, or the channel is
\* empty and every LogSender is dropped.
ClosedNow ==
    \/ b_chan # <<>> /\ ~Head(b_chan).some
    \/ b_chan = <<>> /\ b_senders = 0

\* This step is the return of the given call of the receiving side.
Returns(call) == b_cpc = call /\ b_cpc' # call

\* C27: try_recv outcomes. A try_recv that was called can always return. It
\* returns an entry exactly when a payload is at the head of the channel
\* (that payload), Empty exactly when the channel is empty with a sender
\* alive, Closed exactly when the head is the sentinel or the channel is
\* empty with all senders dropped. recv returns None in exactly the cases
\* where try_recv returns Closed, and the payload at the head otherwise.
C27_ReceiveOutcomes ==
    /\ [](b_cpc = "try_recv" => ENABLED B_TryRecv)
    /\ [][Returns("try_recv") =>
              /\ b_outcome' \in {"Entry", "Empty", "Closed"}
              /\ b_outcome' = "Entry" <=> PayloadAtHead
              /\ b_outcome' = "Empty" <=> (b_chan = <<>> /\ b_senders > 0)
              /\ b_outcome' = "Closed" <=> ClosedNow
              /\ PayloadAtHead => b_entry' = Head(b_chan)]_vars
    /\ [][Returns("recv") =>
              /\ b_outcome' \in {"Entry", "None"}
              /\ b_outcome' = "None" <=> ClosedNow
              /\ b_outcome' = "Entry" => b_entry' = Head(b_chan)]_vars

\* try_recv has returned Closed; the channel is empty and no LogSender is
\* left.
C27_Witness ==
    /\ b_cpc = "idle"
    /\ b_outcome = "Closed"
    /\ b_chan = <<>>
    /\ b_senders = 0

\* How often raw mode was disabled in the trace s.
Disables(s) ==
    Cardinality({k \in 1..Len(s) : s[k].op = "disable_raw_mode"})

\* C28: the callback runs with raw mode restored. With assume_raw_mode, in
\* either engine the render callback is invoked only after the
\* disable_raw_mode of the current write or burst was followed by its
\* enable_raw_mode: no guard is held and raw mode is on. In the threaded
\* engine raw mode is disabled at most once per iteration, a disable
\* without its enable is seen only while the guard is held (or the disable
\* itself failed), and no guard is held between iterations or after the
\* thread has ended, whether by the return on the sentinel or by a panic.
C28_CallbackInRawMode ==
    /\ \A t \in UThreads :
           (assume_raw_mode /\ upc[t] = "callback") =>
               /\ Toggles(ops) = <<"disable_raw_mode", "enable_raw_mode">>
               /\ ~raw_mode_guard[t]
               /\ raw_mode
    /\ (assume_raw_mode /\ cpc = "callback") =>
           /\ Toggles(cops) = <<"disable_raw_mode", "enable_raw_mode">>
           /\ ~guard
           /\ raw_mode
    /\ Disables(cops) <= 1
    /\ Toggles(cops) = <<"disable_raw_mode">> => guard \/ panicking
    /\ cpc \in {"recv", "exited", "panicked"} => ~guard

\* The threaded engine returned from the drain loop on the sentinel: the
\* guard is released and raw mode is on again, the entry is not yet
\* released.
C28_Witness ==
    /\ assume_raw_mode
    /\ cpc = "unwind"
    /\ ~panicking
    /\ entry # None
    /\ ~guard
    /\ raw_mode
    /\ Toggles(cops) = <<"disable_raw_mode", "enable_raw_mode">>

\* Producer p's write takes the fallback path in this step: its send
\* returns with the receiver gone.
Fallback(p) == ppc[p] = "send" /\ ~rx_alive /\ ppc'[p] = "idle"

\* C29: fallback printing has no engine side effects. A write that takes the
\* fallback path leaves raw mode, the sink, the operations issued on it, the
\* background thread's line count and position and both channels as they
\* were; the one thing it may change besides the writer's own state is
\* stdout, which gains nothing but that write's payload.
C29_FallbackFrame ==
    [][\A p \in Producers : Fallback(p) =>
           /\ stdout' \subseteq stdout \cup {pbuf[p]}
           /\ raw_mode' = raw_mode
           /\ <<sink, cops, burst, guard>>' = <<sink, cops, burst, guard>>
           /\ <<lines, last_status, cpc>>' = <<lines, last_status, cpc>>
           /\ <<chan, pool, enq>>' = <<chan, pool, enq>>]_vars

\* After the background thread wrote a payload and ended, a later write has
\* printed its payload on stdout.
C29_Witness ==
    /\ cpc = "exited"
    /\ sink # <<>>
    /\ stdout # {}

\* The last with_callback or threaded call of the trace s, "" if none.
LastTransition(s) ==
    LET t == SelectSeq(s, LAMBDA n : n \in {"with_callback", "threaded"})
    IN  IF t = <<>> THEN "" ELSE t[Len(t)]

\* C30: builder configuration. A new builder has assume_raw_mode = false;
\* through every transition the builder's flag is true exactly if
\* assume_raw_mode() was called, at whatever point; finish builds an
\* unthreaded handler unless threaded() was called (a threaded one exactly
\* if threaded() was the last transition), and the handler gets the
\* builder's flag and its last callback.
C30_BuilderConfiguration ==
    /\ builder_calls = <<>> => ~builder_assume_raw_mode
    /\ builder_assume_raw_mode = ("assume_raw_mode" \in Range(builder_calls))
    /\ handler # NoHandler =>
           /\ "threaded" \notin Range(builder_calls) =>
                  handler.engine = "unthreaded"
           /\ handler.engine = "threaded" <=>
                  LastTransition(builder_calls) = "threaded"
           /\ handler.assume_raw_mode =
                  ("assume_raw_mode" \in Range(builder_calls))
           /\ handler.callback = builder_callback

\* finish built a threaded handler that assumes raw mode from a builder on
\* which assume_raw_mode() was called before with_callback and threaded().
C30_Witness ==
    /\ handler.engine = "threaded"
    /\ handler.assume_raw_mode
    /\ builder_calls = <<"assume_raw_mode", "with_callback", "threaded">>

\* The background thread is at a point where it drops a LogEntry: the end
\* of a drain step, the end of an iteration, or while leaving handle_logs.
Releasing ==
    \/ cpc \in {"drain_drop", "end_iter"}
    \/ cpc = "unwind" /\ drain_entry # None
    \/ cpc = "unwind" /\ drain_entry = None /\ ~guard /\ entry # None

\* C31: the consumer never blocks while returning a buffer. Whenever the
\* background thread is about to drop a LogEntry, the send of its buffer to
\* the free list can complete at once, whatever the producers do; stated
\* here for the runs in which no sink or callback operation has failed.
C31_ReleaseNeverBlocks == (Releasing /\ ~panicking) => PoolReady

\* The buffers held by producers and by the background thread.
HeldByProducers == {k_held[p] : p \in Producers} \ {0}
HeldByConsumer == {k_entry, k_drain} \ {0}

\* How many buffers are in the four places, counted place by place.
LiveBuffers ==
    Len(k_pool) + Len(k_chan) + Cardinality(HeldByProducers)
        + Cardinality(HeldByConsumer)

\* C32: bounded number of live buffers. The buffers in the free list, held
\* by producers, queued in the payload channel and held by the background
\* thread are never more than Capacity + P + 2; every allocated buffer is in
\* exactly one of the four places; and a buffer is allocated only while the
\* free list is empty.
C32_BoundedBuffers ==
    /\ [](/\ LiveBuffers <= Capacity + Cardinality(Producers) + 2
          /\ LiveBuffers = k_allocated
          /\ Range(k_pool) \cup Range(k_chan) \cup HeldByProducers
                 \cup HeldByConsumer = 1..k_allocated
          /\ \A p, q \in Producers :
                 (p # q /\ k_held[p] # 0) => k_held[p] # k_held[q]
          /\ k_entry # 0 => k_entry # k_drain)
    /\ [][k_allocated' # k_allocated => k_pool = <<>>]_vars

\* Capacity + P + 2 buffers exist: the payload channel is full, every
\* producer holds one and the background thread holds two.
C32_Witness ==
    /\ LiveBuffers = Capacity + Cardinality(Producers) + 2
    /\ Len(k_chan) = Capacity
    /\ Cardinality(HeldByConsumer) = 2

\* Producer p is stalled by backpressure: it is at the send and the payload
\* channel is full.
Stalled(p) == k_ppc[p] = "send" /\ Len(k_chan) >= Capacity

\* C33: the free-list lock is never held across a blocking operation. The
\* pool mutex is held exactly by a producer that is at the pop from the
\* free list, and that pop can always be taken; a producer at the send does
\* not hold it, so while one producer is stalled by backpressure another
\* producer that asks for the mutex gets it or finds it held by a producer
\* that can go on; never do all producers wait for the mutex.
C33_LockNotHeldAcrossSend ==
    /\ \A p \in Producers :
           /\ k_mutex = p <=> k_ppc[p] = "pool_take"
           /\ k_ppc[p] = "pool_take" => ENABLED K_Take(p)
           /\ (k_ppc[p] = "lock" /\ k_mutex = Unlocked) => ENABLED K_Lock(p)
    /\ k_mutex \in Producers \cup {Unlocked}
    /\ \E p \in Producers : k_ppc[p] # "lock" \/ k_mutex = Unlocked

\* One producer is stalled by backpressure while the other holds the pool
\* mutex and takes a buffer.
C33_Witness ==
    \E p, q \in Producers :
        /\ p # q
        /\ Stalled(p)
        /\ k_mutex = q
        /\ k_pool # <<>>

\* C34: erasure never exceeds what was drawn (unthreaded engine). The
\* (Clear, MoveUp) pairs issued never erase more lines than the last render
\* drew and that were not erased since, also in a write that follows a
\* failed one.
C34_ErasureWithinDrawn == drawn >= 0

====
